---- MODULE Spec2Model ----
(***************************************************************************)
(* A model of simple-web-crawler.py: crawl_site (the breadth-first page   *)
(* traversal), download_image and the download loop of main.               *)
(*                                                                         *)
(* Strings are sequences of one-character strings, so that urlparse,       *)
(* urljoin, os.path.basename, str.split, str.startswith, str.lower and     *)
(* sanitize_filename are computed character by character.                  *)
(***************************************************************************)
EXTENDS Integers, Sequences, FiniteSets, TLC

(***************************************************************************)
(* Bounds of the model.                                                    *)
(***************************************************************************)
\* the largest --depth argument explored (the smallest is -1)
MaxMaxDepth == 2
\* the largest number of <a href> elements on one page
MaxLinks == 2
\* the largest number of <img> elements on one page
MaxImgs == 1
\* the largest number of download_image calls in one run
MaxCalls == 3
\* the largest length of the short file names given to sanitize_filename
MaxNameLen == 3
\* the largest number of <img> elements on the page fixed in advance
MaxSeedImgs == 1

(***************************************************************************)
(* Strings.                                                                *)
(***************************************************************************)
\* Python's None, kept apart from every string (a string is a sequence of
\* one-character strings, and "None" is not one character)
None == <<"None">>

\* the empty string
Empty == <<>>

\* Python truthiness of an Optional[str]: None and "" are falsy
Truthy(s) == s # None /\ s # Empty

\* c in s, for a one-character c
HasChar(s, c) == \E i \in 1..Len(s) : s[i] = c

\* s.find(c) for a one-character c, 1-based; 0 when c is not in s
Find(s, c) ==
  IF HasChar(s, c) THEN CHOOSE i \in 1..Len(s) : s[i] = c /\ \A j \in 1..(i - 1) : s[j] # c
  ELSE 0

\* s.rfind(c) for a one-character c, 1-based; 0 when c is not in s
RFind(s, c) ==
  IF HasChar(s, c) THEN CHOOSE i \in 1..Len(s) : s[i] = c /\ \A j \in (i + 1)..Len(s) : s[j] # c
  ELSE 0

\* s[:n]
Prefix(s, n) == SubSeq(s, 1, IF n < Len(s) THEN n ELSE Len(s))

\* s[n:] with n 0-based, as in Python
Suffix(s, n) == SubSeq(s, n + 1, Len(s))

\* s.startswith(p)
StartsWith(s, p) == Len(s) >= Len(p) /\ SubSeq(s, 1, Len(p)) = p

\* s.split(c)[0]
SplitFirst(s, c) == IF HasChar(s, c) THEN SubSeq(s, 1, Find(s, c) - 1) ELSE s

\* s.split(c), a sequence of strings
RECURSIVE Split(_, _)
Split(s, c) ==
  IF HasChar(s, c)
  THEN <<SubSeq(s, 1, Find(s, c) - 1)>> \o Split(Suffix(s, Find(s, c)), c)
  ELSE <<s>>

\* c.join(parts)
RECURSIVE Join(_, _)
Join(parts, c) ==
  IF parts = <<>> THEN <<>>
  ELSE IF Len(parts) = 1 THEN parts[1]
  ELSE parts[1] \o <<c>> \o Join(Tail(parts), c)

UpperLetters ==
  <<"A", "B", "C", "D", "E", "F", "G", "H", "I", "J", "K", "L", "M",
    "N", "O", "P", "Q", "R", "S", "T", "U", "V", "W", "X", "Y", "Z">>

LowerLetters ==
  <<"a", "b", "c", "d", "e", "f", "g", "h", "i", "j", "k", "l", "m",
    "n", "o", "p", "q", "r", "s", "t", "u", "v", "w", "x", "y", "z">>

Letters == {UpperLetters[i] : i \in 1..26} \cup {LowerLetters[i] : i \in 1..26}

IsAlpha(c) == c \in Letters

\* the lower-case letter of each upper-case letter
ToLower == [c \in {UpperLetters[i] : i \in 1..26} |->
              LowerLetters[CHOOSE i \in 1..26 : UpperLetters[i] = c]]

LowerChar(c) == IF c \in DOMAIN ToLower THEN ToLower[c] ELSE c

\* s.lower()
Lower(s) == [i \in 1..Len(s) |-> LowerChar(s[i])]

(***************************************************************************)
(* urllib.parse, as called by the crawler.  No input of the model holds a  *)
(* ';' (urlparse's params stay empty), so urlparse is urlsplit here.       *)
(***************************************************************************)
Http == <<"h", "t", "t", "p">>
Https == <<"h", "t", "t", "p", "s">>

\* the members of urllib's uses_relative and uses_netloc the inputs can reach
uses_relative == {Empty, Http, Https}
uses_netloc == {Empty, Http, Https}

\* the characters urlsplit accepts in a scheme
IsSchemeChar(c) ==
  IsAlpha(c) \/ c \in {"0", "1", "2", "3", "4", "5", "6", "7", "8", "9", "+", "-", "."}

\* the position (1-based, in rest) of the first of '/', '?', '#' at or after
\* the third character, or Len(rest) + 1: urllib's _splitnetloc
NetlocEnd(rest) ==
  IF \E i \in 3..Len(rest) : rest[i] \in {"/", "?", "#"}
  THEN CHOOSE i \in 3..Len(rest) :
         /\ rest[i] \in {"/", "?", "#"}
         /\ \A j \in 3..(i - 1) : rest[j] \notin {"/", "?", "#"}
  ELSE Len(rest) + 1

\* urlsplit, statement by statement; each step hands what it computed to the
\* next one.  Last: the query is split off at the first '?'
UrlsplitQuery(scheme, netloc, rest, fragment, mark) ==
  [scheme   |-> scheme,
   netloc   |-> netloc,
   path     |-> IF mark > 0 THEN Prefix(rest, mark - 1) ELSE rest,
   query    |-> IF mark > 0 THEN Suffix(rest, mark) ELSE Empty,
   fragment |-> fragment]

\* the fragment is split off at the first '#' (hash is its position, or 0)
UrlsplitFragment(scheme, netloc, rest, hash) ==
  UrlsplitQuery(scheme, netloc,
                IF hash > 0 THEN Prefix(rest, hash - 1) ELSE rest,
                IF hash > 0 THEN Suffix(rest, hash) ELSE Empty,
                Find(IF hash > 0 THEN Prefix(rest, hash - 1) ELSE rest, "?"))

\* the netloc is what follows a leading '//' up to the first of '/', '?', '#'
UrlsplitNetloc(scheme, rest, netlocEnd) ==
  IF StartsWith(rest, <<"/", "/">>)
  THEN UrlsplitFragment(scheme, SubSeq(rest, 3, netlocEnd - 1), Suffix(rest, netlocEnd - 1),
                        Find(Suffix(rest, netlocEnd - 1), "#"))
  ELSE UrlsplitFragment(scheme, Empty, rest, Find(rest, "#"))

\* the scheme is what precedes the first ':' (colon is its position, or 0),
\* when it starts with a letter and holds scheme characters only
UrlsplitScheme(url, default, colon) ==
  IF colon > 1 /\ IsAlpha(url[1]) /\ \A j \in 1..(colon - 1) : IsSchemeChar(url[j])
  THEN UrlsplitNetloc(Lower(Prefix(url, colon - 1)), Suffix(url, colon),
                      NetlocEnd(Suffix(url, colon)))
  ELSE UrlsplitNetloc(default, url, NetlocEnd(url))

\* urlsplit(url, scheme=default): the five components
urlsplit(url, default) == UrlsplitScheme(url, default, Find(url, ":"))

\* the netloc check of urlsplit: an unbalanced bracket
BadNetloc(netloc) ==
  \/ (HasChar(netloc, "[") /\ ~HasChar(netloc, "]"))
  \/ (HasChar(netloc, "]") /\ ~HasChar(netloc, "["))

\* urlsplit raises ValueError("Invalid IPv6 URL")
UrlsplitRaises(url) == BadNetloc(urlsplit(url, Empty).netloc)

\* urlparse(url)
urlparse(url) == urlsplit(url, Empty)

\* urlunsplit((scheme, netloc, path, query, fragment))
urlunsplit(scheme, netloc, path, query, fragment) ==
  (IF scheme # Empty THEN scheme \o <<":">> ELSE Empty)
  \o (IF netloc # Empty
         \/ (scheme # Empty /\ scheme \in uses_netloc /\ ~StartsWith(path, <<"/", "/">>))
      THEN <<"/", "/">> \o netloc
           \o (IF path # Empty /\ path[1] # "/" THEN <<"/">> ELSE Empty)
      ELSE Empty)
  \o path
  \o (IF query # Empty THEN <<"?">> \o query ELSE Empty)
  \o (IF fragment # Empty THEN <<"#">> \o fragment ELSE Empty)

\* urljoin's removal of '.' and '..' segments
RECURSIVE ResolveDots(_, _)
ResolveDots(segments, acc) ==
  IF segments = <<>> THEN acc
  ELSE IF Head(segments) = <<".", ".">>
       THEN ResolveDots(Tail(segments),
                        IF Len(acc) > 1 THEN SubSeq(acc, 1, Len(acc) - 1) ELSE acc)
  ELSE IF Head(segments) = <<".">> THEN ResolveDots(Tail(segments), acc)
  ELSE ResolveDots(Tail(segments), Append(acc, Head(segments)))

\* segments[1:-1] = filter(None, segments[1:-1])
DropEmptyInner(segments) ==
  IF Len(segments) <= 2 THEN segments
  ELSE <<segments[1]>>
       \o SelectSeq(SubSeq(segments, 2, Len(segments) - 1), LAMBDA g : g # Empty)
       \o <<segments[Len(segments)]>>

\* base_parts: the segments of the base path without its last one
BaseParts(bparts) ==
  IF bparts[Len(bparts)] # Empty THEN SubSeq(bparts, 1, Len(bparts) - 1) ELSE bparts

\* the resolved segments joined, '/' when that is empty
ClosePath(segments, resolved) ==
  IF Join(IF segments[Len(segments)] \in {<<".">>, <<".", ".">>}
          THEN Append(resolved, Empty) ELSE resolved, "/") = Empty
  THEN <<"/">>
  ELSE Join(IF segments[Len(segments)] \in {<<".">>, <<".", ".">>}
            THEN Append(resolved, Empty) ELSE resolved, "/")

ResolvePath(segments) == ClosePath(segments, ResolveDots(segments, <<>>))

\* the path urljoin gives a reference with a non-empty path
JoinedPath(bpath, path) ==
  IF path[1] = "/" THEN ResolvePath(Split(path, "/"))
  ELSE ResolvePath(DropEmptyInner(BaseParts(Split(bpath, "/")) \o Split(path, "/")))

\* urljoin(base, url) raises ValueError when either urlparse does
UrljoinRaises(base, url) ==
  base # Empty /\ url # Empty /\ (UrlsplitRaises(base) \/ UrlsplitRaises(url))

\* urljoin once both addresses are parsed: b is the base, u the reference
JoinParsed(url, b, u) ==
  IF u.scheme # b.scheme \/ u.scheme \notin uses_relative THEN url
  ELSE IF u.scheme \in uses_netloc /\ u.netloc # Empty
  THEN urlunsplit(u.scheme, u.netloc, u.path, u.query, u.fragment)
  ELSE IF u.path = Empty
  THEN urlunsplit(u.scheme, b.netloc, b.path,
                  IF u.query = Empty THEN b.query ELSE u.query, u.fragment)
  ELSE urlunsplit(u.scheme, b.netloc, JoinedPath(b.path, u.path), u.query, u.fragment)

\* the reference is parsed with the base's scheme as its default
JoinWithBase(url, b) == JoinParsed(url, b, urlsplit(url, b.scheme))

\* urljoin(base, url)
urljoin(base, url) ==
  IF base = Empty THEN url
  ELSE IF url = Empty THEN base
  ELSE JoinWithBase(url, urlsplit(base, Empty))

\* os.path.basename(p): what follows the last '/'
basename(p) == Suffix(p, RFind(p, "/"))

(***************************************************************************)
(* sanitize_filename and the file name download_image derives.             *)
(***************************************************************************)
\* line 64: the characters re.sub removes
IllegalChars == {"<", ">", ":", "\"", "/", "\\", "|", "?", "*"}

\* line 66: the longest name kept
NameLimit == 200

\* lines 64-65: the illegal characters removed, then ' ' replaced by '_'
Cleaned(filename) ==
  [i \in 1..Len(SelectSeq(filename, LAMBDA c : c \notin IllegalChars)) |->
     IF SelectSeq(filename, LAMBDA c : c \notin IllegalChars)[i] = " " THEN "_"
     ELSE SelectSeq(filename, LAMBDA c : c \notin IllegalChars)[i]]

\* sanitize_filename without the truncation of lines 66-67
SanitizeUntruncated(filename) ==
  IF filename = Empty THEN Empty ELSE Cleaned(filename)

\* lines 58-68
sanitize_filename(filename) ==
  IF filename = Empty THEN Empty ELSE Prefix(Cleaned(filename), NameLimit)

\* lines 75-76
PathBasename(url) == basename(urlparse(url).path)

\* line 81
StripQueryFragment(img_name) == SplitFirst(SplitFirst(img_name, "?"), "#")

\* lines 75-85: sanitized_name, when no early return comes first
SanitizedName(url) == sanitize_filename(StripQueryFragment(PathBasename(url)))

\* the name tests without the test of the sanitized name (lines 86-87)
NoFilenameUnsanitized(url) ==
  \/ PathBasename(url) = Empty \/ PathBasename(url) = <<"/">>
  \/ StripQueryFragment(PathBasename(url)) = Empty

\* lines 78-79, 82-83, 86-87: download_image returns False before any fetch
NoFilename(url) ==
  \/ PathBasename(url) = Empty \/ PathBasename(url) = <<"/">>
  \/ StripQueryFragment(PathBasename(url)) = Empty
  \/ SanitizedName(url) = Empty

\* os.path.join(output_folder, name)
PathJoin(output_folder, name) ==
  IF name # Empty /\ name[1] = "/" THEN name
  ELSE IF output_folder = Empty \/ output_folder[Len(output_folder)] = "/"
  THEN output_folder \o name
  ELSE output_folder \o <<"/">> \o name

\* line 89
FilePath(url, output_folder) == PathJoin(output_folder, SanitizedName(url))

\* the content-type test that passes every declared type
NotImageAbsentOnly(content_type) == ~Truthy(content_type)

\* line 98: the response is not declared as an image
NotImage(content_type) ==
  ~Truthy(content_type) \/ ~StartsWith(Lower(content_type), <<"i", "m", "a", "g", "e">>)

\* line 101: int() raises ValueError on a content-length that is no number
\* (None stands for an absent header, read as 0)
LengthRaises(content_length) ==
  /\ content_length # None
  /\ \/ content_length = Empty
     \/ \E i \in 1..Len(content_length) :
          content_length[i] \notin {"0", "1", "2", "3", "4", "5", "6", "7", "8", "9"}

(***************************************************************************)
(* The inputs of the crawl: seeds, the href values of <a> elements and the *)
(* attributes of <img> elements a fetched page may hold.                   *)
(***************************************************************************)
\* "http://a/"
SeedA == <<"h", "t", "t", "p", ":", "/", "/", "a", "/">>
\* "http://b/x#s": a seed that holds a fragment marker
SeedB == <<"h", "t", "t", "p", ":", "/", "/", "b", "/", "x", "#", "s">>

BaseUrls == {SeedA, SeedB}

\* the values of --depth (type=int, so a negative one is accepted)
MaxDepths == (-1)..MaxMaxDepth

\* "/x", "http://a/y", "http://b/y", "/x#f" and "//[" (urljoin raises on it)
HrefX == <<"/", "x">>
HrefAY == <<"h", "t", "t", "p", ":", "/", "/", "a", "/", "y">>
HrefBY == <<"h", "t", "t", "p", ":", "/", "/", "b", "/", "y">>
HrefFrag == <<"/", "x", "#", "f">>
HrefBad == <<"/", "/", "[">>

Hrefs == {HrefX, HrefAY, HrefBY, HrefFrag, HrefBad}

\* "data:" starts an inline image
DataScheme == <<"d", "a", "t", "a", ":">>

\* <img data-src="/i" src="/j"> and <img data-lazyload="" src="data:x">
ImgLazy == [data_src |-> <<"/", "i">>, data_lazyload |-> None, src |-> <<"/", "j">>]
ImgInline == [data_src |-> None, data_lazyload |-> Empty, src |-> DataScheme \o <<"x">>]

ImgElems == {ImgLazy, ImgInline}

\* the sequences over S of length at most n
SeqsUpTo(S, n) == UNION {[1..k -> S] : k \in 0..n}

\* what BeautifulSoup finds in a fetched page: soup.find_all('img') and the
\* href values of soup.find_all('a', href=True), both in document order
PageImgs == SeqsUpTo(ImgElems, MaxImgs)
PageLinks == SeqsUpTo(Hrefs, MaxLinks)

(***************************************************************************)
(* The inputs of the downloader: image addresses, output directories and   *)
(* the responses to an image fetch.                                        *)
(***************************************************************************)
\* "http://a/i" and "http://b/d/i?v=2": two addresses with the last segment "i"
ImgA == <<"h", "t", "t", "p", ":", "/", "/", "a", "/", "i">>
ImgB == <<"h", "t", "t", "p", ":", "/", "/", "b", "/", "d", "/", "i", "?", "v", "=", "2">>
\* "http://a/d/": the path ends in '/'
ImgDir == <<"h", "t", "t", "p", ":", "/", "/", "a", "/", "d", "/">>
\* "http://a": the path is empty
ImgRoot == <<"h", "t", "t", "p", ":", "/", "/", "a">>
\* "http://a/:": the last segment is empty once sanitized
ImgColon == <<"h", "t", "t", "p", ":", "/", "/", "a", "/", ":">>

ImageUrls == {ImgA, ImgB, ImgDir, ImgRoot, ImgColon}

\* "o" and "p"
OutputDirs == {<<"o">>, <<"p">>}

\* the content-type header: absent, "text/html", "image/png", "Image"
ContentTypes ==
  {None,
   <<"t", "e", "x", "t", "/", "h", "t", "m", "l">>,
   <<"i", "m", "a", "g", "e", "/", "p", "n", "g">>,
   <<"I", "m", "a", "g", "e">>}

\* the content-length header: absent, "7", "x"
ContentLengths == {None, <<"7">>, <<"x">>}

\* no page processed yet
NoPage == [url |-> None, depth |-> 0, link_hosts |-> {}]

\* no download_image call yet
NoCall == [url |-> None, folder |-> None, fetch |-> "none", content_type |-> None,
           ret |-> FALSE, outcome |-> "none"]

(***************************************************************************)
(* The state.                                                              *)
(***************************************************************************)
VARIABLES
  base_url,        \* crawl_site's argument
  max_depth,       \* crawl_site's argument
  to_visit,        \* the frontier: a sequence of <<url, depth>>
  visited,         \* the set of addresses that passed the gate
  all_image_urls,  \* the set of resolved image addresses
  pc,              \* "crawl", "done" (crawl_site returned), "raised" (an
                   \* exception left the function), "download" (download_image
                   \* called with any arguments), "loop" (main's download
                   \* loop), "exit", "sanitize", "sanitized", "resanitized"
  result,          \* what crawl_site returned, None before
  page_imgs,       \* history: <<depth, address>> for every non-empty, non-data:
                   \* <img> address of the pages fetched and processed to the end
  fetched,         \* history: the pops that passed the gate, in order, as
                   \* [url, depth, status]
  enq,             \* history: for each address ever appended to the
                   \* frontier, the page that appended it first
  skipped,         \* history: the popped entries the gate dropped
  last_page,       \* history: the last page processed to the end, as
                   \* [url, depth, link_hosts]
  files,           \* the files under the output directories, as
                   \* [path, url, whole]: the address the content came from
                   \* and whether the body was written to the end
  download_count,  \* main's counter (lines 221-225)
  ncalls,          \* the number of download_image calls so far
  last,            \* history: the last download_image call, as [url, folder,
                   \* fetch ("none", "failed", "ok"), content_type, ret, outcome]
  remaining,       \* main's download loop: the addresses of list(all_image_urls)
                   \* not iterated yet (line 223)
  log,             \* history of main's download loop: [url, outcome] for every
                   \* download_image call that returned
  filename,        \* sanitize_filename's argument
  sanitized,       \* sanitize_filename's result
  seed_imgs        \* the <img> elements of the page served at the seed, where
                   \* one page is fixed in advance


dlVars == <<files, download_count, ncalls, last, remaining, log>>

auxVars == <<filename, sanitized, seed_imgs>>

crawlVars == <<base_url, max_depth, to_visit, visited, all_image_urls, result, page_imgs,
               fetched, enq, skipped, last_page>>

(***************************************************************************)
(* crawl_site.                                                             *)
(***************************************************************************)
\* line 124
domain_name == urlparse(base_url).netloc

\* the gate without its visited test
GateDepthOnly(current_url, depth) == depth > max_depth

\* the gate without its depth test
GateVisitedOnly(current_url, depth) == current_url \in visited

\* line 135: the popped entry is dropped
Gate(current_url, depth) == current_url \in visited \/ depth > max_depth

\* the attributes read in the order src, data-src, data-lazyload
ImgUrlSrcFirst(img) ==
  IF Truthy(img.src) THEN img.src
  ELSE IF Truthy(img.data_src) THEN img.data_src
  ELSE img.data_lazyload

\* line 150: the attribute an <img> is read from
ImgUrl(img) ==
  IF Truthy(img.data_src) THEN img.data_src
  ELSE IF Truthy(img.data_lazyload) THEN img.data_lazyload
  ELSE img.src

\* line 151: the element is passed over
ImgSkipped(img_url) == ~Truthy(img_url) \/ StartsWith(img_url, DataScheme)

\* lines 149-155 end in an exception: urljoin raises on some collected <img>
ImgsRaise(current_url, imgs) ==
  \E i \in 1..Len(imgs) :
    ~ImgSkipped(ImgUrl(imgs[i])) /\ UrljoinRaises(current_url, ImgUrl(imgs[i]))

\* lines 149-155: the addresses added to all_image_urls, up to the first
\* element on which urljoin raises
RECURSIVE CollectImgs(_, _)
CollectImgs(current_url, imgs) ==
  IF imgs = <<>> THEN {}
  ELSE IF ImgSkipped(ImgUrl(Head(imgs))) THEN CollectImgs(current_url, Tail(imgs))
  ELSE IF UrljoinRaises(current_url, ImgUrl(Head(imgs))) THEN {}
  ELSE {urljoin(current_url, ImgUrl(Head(imgs)))} \cup CollectImgs(current_url, Tail(imgs))

\* links followed from the pages at max_depth too
FollowsLinksAtLimit(depth) == depth <= max_depth

\* line 157: links are followed from this depth
FollowsLinks(depth) == depth < max_depth

\* the scope test without the fragment test
LinkWithFragment(absolute_link_url) ==
  urlparse(absolute_link_url).netloc = domain_name

\* the scope test without the comparison of network locations
LinkAnyDomain(absolute_link_url) == ~HasChar(absolute_link_url, "#")

\* line 161: the resolved link is on the seed's domain and holds no '#'
LinkInScope(absolute_link_url) ==
  urlparse(absolute_link_url).netloc = domain_name /\ ~HasChar(absolute_link_url, "#")

\* every resolved link taken as new
LinkAlwaysNew(absolute_link_url, vis) == TRUE

\* line 162: the resolved link is appended
LinkIsNew(absolute_link_url, vis) == absolute_link_url \notin vis

\* lines 158-163 end in an exception: urljoin raises on some href
LinksRaise(current_url, links) ==
  \E i \in 1..Len(links) : UrljoinRaises(current_url, links[i])

\* lines 158-163: the entries appended to to_visit, in document order, up to
\* the first href on which urljoin raises; vis is visited, which already
\* holds current_url
RECURSIVE NewEntries(_, _, _, _)
NewEntries(current_url, depth, links, vis) ==
  IF links = <<>> THEN <<>>
  ELSE IF UrljoinRaises(current_url, Head(links)) THEN <<>>
  ELSE LET absolute_link_url == urljoin(current_url, Head(links))
       IN  (IF LinkInScope(absolute_link_url) /\ LinkIsNew(absolute_link_url, vis)
            THEN <<(<<absolute_link_url, depth + 1>>)>>
            ELSE <<>>)
           \o NewEntries(current_url, depth, Tail(links), vis)

\* the appended entries one level too deep
AppendedDeeper(current_url, depth, links, vis) ==
  IF FollowsLinks(depth) THEN NewEntries(current_url, depth + 1, links, vis) ELSE <<>>

\* lines 157-163
Appended(current_url, depth, links, vis) ==
  IF FollowsLinks(depth) THEN NewEntries(current_url, depth, links, vis) ELSE <<>>

\* the new entries put in front of the frontier
PushFront(frontier, entries) == entries \o frontier

\* line 163: to_visit.append, for the entries of one page in order
Push(frontier, entries) == frontier \o entries

\* some page makes the loop body raise: urljoin raises on one of its <img>
\* or, when links are followed, on one of its <a>
SomePageRaises(current_url, depth) ==
  (\E links \in PageLinks, imgs \in PageImgs :
     \/ ImgsRaise(current_url, imgs)
     \/ (FollowsLinks(depth) /\ LinksRaise(current_url, links))) = TRUE

\* history: the network locations the <a> elements of a page resolve to
LinkHosts(current_url, links) ==
  {urlparse(urljoin(current_url, links[i])).netloc :
     i \in {j \in 1..Len(links) : ~UrljoinRaises(current_url, links[j])}}

\* history: the first page to append each address
RECURSIVE NoteEnq(_, _, _, _)
NoteEnq(e, entries, by, bydepth) ==
  IF entries = <<>> THEN e
  ELSE NoteEnq(IF \E r \in e : r.url = Head(entries)[1] THEN e
               ELSE e \cup {[url |-> Head(entries)[1], by |-> by, bydepth |-> bydepth]},
               Tail(entries), by, bydepth)

\* lines 124-127
Init ==
  /\ base_url \in BaseUrls
  /\ max_depth \in MaxDepths
  /\ to_visit = <<(<<base_url, 0>>)>>
  /\ visited = {}
  /\ all_image_urls = {}
  /\ pc = "crawl"
  /\ result = None
  /\ page_imgs = {}
  /\ fetched = <<>>
  /\ enq = {}
  /\ skipped = {}
  /\ last_page = NoPage
  /\ files = {}
  /\ download_count = 0
  /\ ncalls = 0
  /\ last = NoCall
  /\ remaining = {}
  /\ log = {}
  /\ filename = Empty
  /\ sanitized = Empty
  /\ seed_imgs = <<>>

\* lines 132-136: the popped entry is visited already or too deep
SkipEntry ==
  /\ pc = "crawl"
  /\ to_visit # <<>>
  /\ Gate(Head(to_visit)[1], Head(to_visit)[2])
  /\ to_visit' = Tail(to_visit)
  /\ skipped' = skipped \cup {Head(to_visit)}
  /\ UNCHANGED dlVars
  /\ UNCHANGED auxVars
  /\ UNCHANGED <<base_url, max_depth, visited, all_image_urls, pc, result, page_imgs,
                 fetched, enq, last_page>>

\* lines 132-145: the fetch raises a RequestException (network error, timeout
\* or a non-success status)
FetchFails ==
  /\ pc = "crawl"
  /\ to_visit # <<>>
  /\ ~Gate(Head(to_visit)[1], Head(to_visit)[2])
  /\ visited' = visited \cup {Head(to_visit)[1]}
  /\ to_visit' = Tail(to_visit)
  /\ fetched' = Append(fetched, [url |-> Head(to_visit)[1], depth |-> Head(to_visit)[2],
                                 status |-> "failed"])
  /\ UNCHANGED dlVars
  /\ UNCHANGED auxVars
  /\ UNCHANGED <<base_url, max_depth, all_image_urls, pc, result, page_imgs, enq,
                 skipped, last_page>>

\* lines 132-166: the fetch succeeds and the page is processed to the end
FetchPage ==
  /\ pc = "crawl"
  /\ to_visit # <<>>
  /\ ~Gate(Head(to_visit)[1], Head(to_visit)[2])
  /\ \E links \in PageLinks :
       LET current_url == Head(to_visit)[1]
           depth == Head(to_visit)[2]
           vis == visited \cup {current_url}
           new == Appended(current_url, depth, links, vis)
       IN  /\ ~(FollowsLinks(depth) /\ LinksRaise(current_url, links))
           /\ visited' = vis
           /\ to_visit' = Push(Tail(to_visit), new)
           /\ fetched' = Append(fetched, [url |-> current_url, depth |-> depth,
                                          status |-> "ok"])
           /\ enq' = NoteEnq(enq, new, current_url, depth)
           /\ last_page' = [url |-> current_url, depth |-> depth,
                             link_hosts |-> LinkHosts(current_url, links)]
           /\ \E imgs \in PageImgs :
                /\ ~ImgsRaise(current_url, imgs)
                /\ all_image_urls' = all_image_urls \cup CollectImgs(current_url, imgs)
                /\ page_imgs' = page_imgs \cup
                     {<<depth, urljoin(current_url, ImgUrl(imgs[i]))>> :
                        i \in {j \in 1..Len(imgs) : ~ImgSkipped(ImgUrl(imgs[j]))}}
  /\ UNCHANGED dlVars
  /\ UNCHANGED auxVars
  /\ UNCHANGED <<base_url, max_depth, pc, result, skipped>>

\* lines 132-163: the fetch succeeds and urljoin raises ValueError on an <img>
\* or, when links are followed, on an <a> of the page.  No handler catches it
\* (line 144 catches RequestException alone), so it leaves crawl_site after
\* the pop (line 133) and visited.add (line 139).  What the loop body added to
\* all_image_urls and to_visit before the raise is lost with the frame and is
\* not modelled.
FetchPageRaises ==
  /\ pc = "crawl"
  /\ to_visit # <<>>
  /\ ~Gate(Head(to_visit)[1], Head(to_visit)[2])
  /\ SomePageRaises(Head(to_visit)[1], Head(to_visit)[2])
  /\ fetched' = Append(fetched, [url |-> Head(to_visit)[1], depth |-> Head(to_visit)[2],
                                 status |-> "raised"])
  /\ to_visit' = Tail(to_visit)
  /\ visited' = visited \cup {Head(to_visit)[1]}
  /\ pc' = "raised"
  /\ UNCHANGED dlVars
  /\ UNCHANGED auxVars
  /\ UNCHANGED <<base_url, max_depth, all_image_urls, result, page_imgs, enq, skipped,
                 last_page>>

\* lines 132, 168-169: the frontier is empty and crawl_site returns
Return ==
  /\ pc = "crawl"
  /\ to_visit = <<>>
  /\ pc' = "done"
  /\ result' = <<visited, all_image_urls>>
  /\ UNCHANGED dlVars
  /\ UNCHANGED auxVars
  /\ UNCHANGED <<base_url, max_depth, to_visit, visited, all_image_urls, page_imgs,
                 fetched, enq, skipped, last_page>>

vars == <<base_url, max_depth, to_visit, visited, all_image_urls, pc, result, page_imgs,
          fetched, enq, skipped, last_page, files, download_count, ncalls, last,
          remaining, log, filename, sanitized, seed_imgs>>

Next ==
  \/ SkipEntry
  \/ FetchFails
  \/ FetchPage
  \/ FetchPageRaises
  \/ Return

Spec == Init /\ [][Next]_vars

\* crawl_site as the interpreter runs it: the loop goes on while it can
SpecFair == Init /\ [][Next]_vars /\ WF_vars(Next)

(***************************************************************************)
(* Properties of crawl_site, checked under Spec.                           *)
(***************************************************************************)
\* the addresses that passed the gate, in order
FetchedUrls == {fetched[i].url : i \in 1..Len(fetched)}

\* C1: no page address is fetched more than once: the sequence of addresses
\* that pass the visited/depth gate holds no address twice, however many pages
\* link to it.
C1_NoRefetch ==
  \A i, j \in 1..Len(fetched) : fetched[i].url = fetched[j].url => i = j

\* C1 witness: crawl_site returned, an address was fetched and an entry that
\* held the same address again was dropped by the gate
C1_Witness ==
  /\ pc = "done"
  /\ \E e \in skipped : e[1] \in FetchedUrls /\ e[1] # base_url

C3_Depths ==
  /\ \A i \in 1..Len(fetched) :
       /\ fetched[i].depth <= max_depth
       /\ fetched[i].url = base_url => fetched[i].depth = 0
       /\ fetched[i].url # base_url =>
            \E r \in enq : r.url = fetched[i].url /\ fetched[i].depth = r.bydepth + 1
  /\ pc = "done" => result[1] = FetchedUrls

\* C3 witness: crawl_site returned and a page first enqueued by the seed was
\* processed at depth 1 although a page at depth 1 enqueued it again
C3_Witness ==
  /\ pc = "done"
  /\ \E e \in skipped, i \in 1..Len(fetched) :
       /\ e[2] = 2
       /\ fetched[i].url = e[1]
       /\ fetched[i].depth = 1
       /\ fetched[i].url \in result[1]

\* C4: with max_depth = 0 the returned visited set is {seed}, no link is ever
\* enqueued or fetched, and the images of the seed page are in the returned
\* image set when its fetch succeeds.
C4_DepthZero ==
  max_depth = 0 =>
    /\ enq = {}
    /\ FetchedUrls \subseteq {base_url}
    /\ to_visit \in {<<>>, <<(<<base_url, 0>>)>>}
    /\ pc = "done" =>
         /\ result[1] = {base_url}
         /\ {p[2] : p \in page_imgs} \subseteq result[2]

\* C4 witness: max_depth = 0, the seed page held links and an image, and
\* crawl_site returned
C4_Witness ==
  /\ max_depth = 0
  /\ pc = "done"
  /\ last_page.url = base_url
  /\ last_page.link_hosts # {}
  /\ page_imgs # {}

\* C5: a link whose resolved network location differs from the seed's is
\* never added to the frontier, never fetched and never in the returned
\* visited set.
C5_SameDomain ==
  /\ \A i \in 1..Len(to_visit) : urlparse(to_visit[i][1]).netloc = domain_name
  /\ \A u \in FetchedUrls \cup visited : urlparse(u).netloc = domain_name
  /\ pc = "done" => \A u \in result[1] : urlparse(u).netloc = domain_name

\* C5 witness: seed http://a/ links to http://a/y and to http://b/y with
\* max_depth = 1, and the returned visited set is {http://a/, http://a/y}
C5_Witness ==
  /\ pc = "done"
  /\ max_depth = 1
  /\ base_url = SeedA
  /\ last_page.url = SeedA
  /\ last_page.link_hosts = {<<"a">>, <<"b">>}
  /\ result[1] = {SeedA, HrefAY}

\* C6: no page at a depth > max_depth is ever fetched, the links of a page at
\* depth max_depth are never enqueued, and every non-empty, non-data: image
\* address of a page fetched at depth max_depth is in the returned image set.
C6_DepthGatesLinksOnly ==
  /\ \A i \in 1..Len(fetched) : fetched[i].depth <= max_depth
  /\ \A r \in enq : r.bydepth < max_depth
  /\ \A i \in 1..Len(to_visit) : to_visit[i][2] = 0 \/ to_visit[i][2] <= max_depth
  /\ pc = "done" => \A p \in page_imgs : p[1] = max_depth => p[2] \in result[2]

\* C6 witness: crawl_site returned, and the last page, at depth max_depth > 0,
\* held links and an image that is in the returned image set
C6_Witness ==
  /\ pc = "done"
  /\ max_depth > 0
  /\ last_page.depth = max_depth
  /\ last_page.link_hosts # {}
  /\ \E p \in page_imgs : p[1] = max_depth /\ p[2] \in result[2]

\* C13: pages are fetched in breadth-first order: the depths of successively
\* fetched pages never decrease, and the frontier is in order of depth behind
\* the page fetched last, so no page of depth d+1 is fetched while a page of
\* depth d waits on the frontier.
C13_BreadthFirst ==
  /\ \A i, j \in 1..Len(fetched) : i < j => fetched[i].depth <= fetched[j].depth
  /\ \A i, j \in 1..Len(to_visit) : i < j => to_visit[i][2] <= to_visit[j][2]
  /\ (fetched # <<>> /\ to_visit # <<>>) =>
       fetched[Len(fetched)].depth <= Head(to_visit)[2]

\* C13 witness: after the seed and a page of depth 1 were fetched, a page of
\* depth 1 waits at the head of the frontier in front of an entry of depth 2
C13_Witness ==
  /\ Len(fetched) = 2
  /\ fetched[2].depth = 1
  /\ Len(to_visit) >= 2
  /\ Head(to_visit)[2] = 1
  /\ to_visit[Len(to_visit)][2] = 2

\* C16: no link whose resolved address holds '#' is ever added to the
\* frontier; only the seed can be a fetched address that holds '#'.
C16_NoFragment ==
  /\ \A i \in 1..Len(to_visit) :
       HasChar(to_visit[i][1], "#") => to_visit[i] = <<base_url, 0>>
  /\ \A i \in 1..Len(fetched) : HasChar(fetched[i].url, "#") => fetched[i].url = base_url
  /\ \A r \in enq : ~HasChar(r.url, "#")
  /\ \A u \in visited : HasChar(u, "#") => u = base_url

\* C16 witness: the seed http://b/x#s, which holds '#', was fetched with
\* max_depth > 0; its page held same-domain links only, every one of them
\* with a '#' in its resolved address, and nothing was enqueued
C16_Witness ==
  /\ pc = "done"
  /\ base_url = SeedB
  /\ max_depth > 0
  /\ last_page.url = SeedB
  /\ last_page.link_hosts = {<<"b">>}
  /\ enq = {}
  /\ result[1] = {SeedB}

\* C7, as stated: a page whose links cannot be processed does not abort the
\* crawl: no exception leaves crawl_site.
C7_NotAborted == pc # "raised"

(***************************************************************************)
(* download_image, called as main's download loop calls it (lines 224-225: *)
(* the counter is incremented when it returns True).  The outcome names    *)
(* are the specification's: Saved, AlreadyPresent, Skipped, Failed.        *)
(***************************************************************************)
\* the existence test that passes over a partially written file
FileExistsWhole(file_path) == \E f \in files : f.path = file_path /\ f.whole

\* the existence test that never finds the file
FileNeverExists(file_path) == FALSE

\* line 91: os.path.exists(file_path)
FileExists(file_path) == \E f \in files : f.path = file_path

\* main's output_directory (args.output, line 193): "o"
output_directory == <<"o">>

\* a call can start: download_image is called with any arguments
\* ("download") or from main's download loop ("loop", lines 223-224)
CanCall == pc \in {"download", "loop"} /\ ncalls < MaxCalls

\* the url argument: any collected address, or in main's loop one of those
\* the iteration has not reached yet
CallUrls == IF pc = "loop" THEN remaining ELSE all_image_urls

\* the output_folder argument
CallDirs == IF pc = "loop" THEN {output_directory} ELSE OutputDirs

\* the state after a call that returned ret
Returned(img_url, output_folder, fetch, content_type, ret, outcome) ==
  /\ last' = [url |-> img_url, folder |-> output_folder, fetch |-> fetch,
              content_type |-> content_type, ret |-> ret, outcome |-> outcome]
  /\ download_count' = IF ret THEN download_count + 1 ELSE download_count
  /\ ncalls' = ncalls + 1
  /\ remaining' = remaining \ {img_url}
  /\ log' = IF pc = "loop" THEN log \cup {[url |-> img_url, outcome |-> outcome]} ELSE log

\* lines 75-87: no file name can be derived; False before any fetch
DlNoFilename ==
  /\ CanCall
  /\ \E img_url \in CallUrls, output_folder \in CallDirs :
       /\ NoFilename(img_url)
       /\ Returned(img_url, output_folder, "none", None, FALSE, "Skipped")
  /\ UNCHANGED <<files, pc>>
  /\ UNCHANGED crawlVars
  /\ UNCHANGED auxVars

\* lines 75-92: the file is there already; True without a fetch
DlExists ==
  /\ CanCall
  /\ \E img_url \in CallUrls, output_folder \in CallDirs :
       /\ ~NoFilename(img_url)
       /\ FileExists(FilePath(img_url, output_folder))
       /\ Returned(img_url, output_folder, "none", None, TRUE, "AlreadyPresent")
  /\ UNCHANGED <<files, pc>>
  /\ UNCHANGED crawlVars
  /\ UNCHANGED auxVars

\* lines 75-95, 115-116: requests.get or raise_for_status raises
DlFetchFails ==
  /\ CanCall
  /\ \E img_url \in CallUrls, output_folder \in CallDirs :
       /\ ~NoFilename(img_url)
       /\ ~FileExists(FilePath(img_url, output_folder))
       /\ Returned(img_url, output_folder, "failed", None, FALSE, "Failed")
  /\ UNCHANGED <<files, pc>>
  /\ UNCHANGED crawlVars
  /\ UNCHANGED auxVars

\* lines 75-99: the response is not declared as an image
DlNotImage ==
  /\ CanCall
  /\ \E img_url \in CallUrls, output_folder \in CallDirs,
        content_type \in ContentTypes :
       /\ ~NoFilename(img_url)
       /\ ~FileExists(FilePath(img_url, output_folder))
       /\ NotImage(content_type)
       /\ Returned(img_url, output_folder, "ok", content_type, FALSE, "Skipped")
  /\ UNCHANGED <<files, pc>>
  /\ UNCHANGED crawlVars
  /\ UNCHANGED auxVars

\* lines 75-101: int() raises ValueError on the content-length header; neither
\* handler (lines 115, 117) catches it, so it leaves download_image and main
DlLengthRaises ==
  /\ CanCall
  /\ \E img_url \in CallUrls, output_folder \in CallDirs,
        content_type \in ContentTypes, content_length \in ContentLengths :
       /\ ~NoFilename(img_url)
       /\ ~FileExists(FilePath(img_url, output_folder))
       /\ ~NotImage(content_type)
       /\ LengthRaises(content_length)
       /\ last' = [url |-> img_url, folder |-> output_folder, fetch |-> "ok",
                   content_type |-> content_type, ret |-> FALSE, outcome |-> "raised"]
       /\ remaining' = remaining \ {img_url}
  /\ ncalls' = ncalls + 1
  /\ pc' = "raised"
  /\ UNCHANGED <<files, download_count, log>>
  /\ UNCHANGED crawlVars
  /\ UNCHANGED auxVars

\* lines 75-103, 117-118: open raises IOError and no file is created
DlOpenFails ==
  /\ CanCall
  /\ \E img_url \in CallUrls, output_folder \in CallDirs,
        content_type \in ContentTypes, content_length \in ContentLengths :
       /\ ~NoFilename(img_url)
       /\ ~FileExists(FilePath(img_url, output_folder))
       /\ ~NotImage(content_type)
       /\ ~LengthRaises(content_length)
       /\ Returned(img_url, output_folder, "ok", content_type, FALSE, "Failed")
  /\ UNCHANGED <<files, pc>>
  /\ UNCHANGED crawlVars
  /\ UNCHANGED auxVars

\* lines 75-113, 115-118: open creates the file, then iter_content raises a
\* RequestException or write raises IOError; the part written stays
DlWriteFails ==
  /\ CanCall
  /\ \E img_url \in CallUrls, output_folder \in CallDirs,
        content_type \in ContentTypes, content_length \in ContentLengths :
       /\ ~NoFilename(img_url)
       /\ ~FileExists(FilePath(img_url, output_folder))
       /\ ~NotImage(content_type)
       /\ ~LengthRaises(content_length)
       /\ files' = files \cup {[path |-> FilePath(img_url, output_folder),
                                url |-> img_url, whole |-> FALSE]}
       /\ Returned(img_url, output_folder, "ok", content_type, FALSE, "Failed")
  /\ UNCHANGED pc
  /\ UNCHANGED crawlVars
  /\ UNCHANGED auxVars

\* lines 75-114: the body is written to the end; True
DlSaved ==
  /\ CanCall
  /\ \E img_url \in CallUrls, output_folder \in CallDirs,
        content_type \in ContentTypes, content_length \in ContentLengths :
       /\ ~NoFilename(img_url)
       /\ ~FileExists(FilePath(img_url, output_folder))
       /\ ~NotImage(content_type)
       /\ ~LengthRaises(content_length)
       /\ files' = files \cup {[path |-> FilePath(img_url, output_folder),
                                url |-> img_url, whole |-> TRUE]}
       /\ Returned(img_url, output_folder, "ok", content_type, TRUE, "Saved")
  /\ UNCHANGED pc
  /\ UNCHANGED crawlVars
  /\ UNCHANGED auxVars

\* main after crawl_site returned the image set ImageUrls (line 217), the
\* output directories empty
InitDownload ==
  /\ base_url = SeedA
  /\ max_depth = 0
  /\ to_visit = <<>>
  /\ visited = {SeedA}
  /\ all_image_urls = ImageUrls
  /\ pc = "download"
  /\ result = <<{SeedA}, ImageUrls>>
  /\ page_imgs = {}
  /\ fetched = <<>>
  /\ enq = {}
  /\ skipped = {}
  /\ last_page = NoPage
  /\ files = {}
  /\ download_count = 0
  /\ ncalls = 0
  /\ last = NoCall
  /\ remaining = {}
  /\ log = {}
  /\ filename = Empty
  /\ sanitized = Empty
  /\ seed_imgs = <<>>

NextDownload ==
  \/ DlNoFilename
  \/ DlExists
  \/ DlFetchFails
  \/ DlNotImage
  \/ DlLengthRaises
  \/ DlOpenFails
  \/ DlWriteFails
  \/ DlSaved

SpecDownload == InitDownload /\ [][NextDownload]_vars

(***************************************************************************)
(* main's download loop (lines 221-227): every address of all_image_urls   *)
(* is passed to download_image once, in the order the set iterates.        *)
(***************************************************************************)
\* lines 217-221: crawl_site returned some image set, the output directory
\* is empty
InitMain ==
  /\ base_url = SeedA
  /\ max_depth = 0
  /\ to_visit = <<>>
  /\ visited = {SeedA}
  /\ all_image_urls \in {S \in SUBSET ImageUrls : Cardinality(S) <= MaxCalls}
  /\ pc = "loop"
  /\ result = <<{SeedA}, all_image_urls>>
  /\ page_imgs = {}
  /\ fetched = <<>>
  /\ enq = {}
  /\ skipped = {}
  /\ last_page = NoPage
  /\ files = {}
  /\ download_count = 0
  /\ ncalls = 0
  /\ last = NoCall
  /\ remaining = all_image_urls
  /\ log = {}
  /\ filename = Empty
  /\ sanitized = Empty
  /\ seed_imgs = <<>>

\* lines 223, 227: the iteration is over and the count is reported
LoopDone ==
  /\ pc = "loop"
  /\ remaining = {}
  /\ pc' = "exit"
  /\ UNCHANGED crawlVars
  /\ UNCHANGED dlVars
  /\ UNCHANGED auxVars

NextMain ==
  \/ DlNoFilename
  \/ DlExists
  \/ DlFetchFails
  \/ DlNotImage
  \/ DlLengthRaises
  \/ DlOpenFails
  \/ DlWriteFails
  \/ DlSaved
  \/ LoopDone

SpecMain == InitMain /\ [][NextMain]_vars

\* C14, as stated: when the download loop ends, every address of the image
\* set was attempted exactly once, whatever the outcome of the others, and the
\* count equals the number of addresses whose outcome is Saved or
\* AlreadyPresent.
C14_CountsAll ==
  pc \in {"exit", "raised"} =>
    /\ remaining = {}
    /\ {l.url : l \in log} = all_image_urls
    /\ ncalls = Cardinality(all_image_urls)
    /\ download_count =
         Cardinality({l \in log : l.outcome \in {"Saved", "AlreadyPresent"}})

(***************************************************************************)
(* Properties of download_image, checked under SpecDownload.               *)
(***************************************************************************)
\* a step that is a download_image call which follows a call with the same
\* address and output directory
SecondCall ==
  /\ ncalls >= 1
  /\ ncalls' = ncalls + 1
  /\ last'.url = last.url
  /\ last'.folder = last.folder

\* C8, as stated: for every image address and output directory, the second of
\* two calls in sequence returns AlreadyPresent and performs no fetch.
C8_SecondCallPresent ==
  [][SecondCall => last'.outcome = "AlreadyPresent" /\ last'.fetch = "none"]_vars

\* C8, amended: the second of two calls in sequence with the same address and
\* output directory returns AlreadyPresent (success) and performs no fetch
\* when the first call returned Saved or AlreadyPresent, or otherwise left a
\* file at the derived path.
C8_SecondCallAfterFile ==
  [][(/\ SecondCall
      /\ \/ last.outcome \in {"Saved", "AlreadyPresent"}
         \/ \E f \in files : f.path = FilePath(last.url, last.folder))
     => /\ last'.outcome = "AlreadyPresent"
        /\ last'.ret
        /\ last'.fetch = "none"
        /\ files' = files]_vars

\* C8 witness: two calls were made, the first saved the address to the
\* directory and the second, for the same address and directory, found it
C8_Witness ==
  /\ ncalls = 2
  /\ download_count = 2
  /\ last.outcome = "AlreadyPresent"
  /\ files = {[path |-> FilePath(last.url, last.folder), url |-> last.url, whole |-> TRUE]}

\* the content types that do not declare an image: absent, "text/html"
NonImageTypes == {None, <<"t", "e", "x", "t", "/", "h", "t", "m", "l">>}

\* C9: when the fetch succeeds and the response declares no content type or
\* one that does not indicate an image, the outcome is Skipped (no success),
\* no file is created or modified and the download count is not incremented.
C9_NotImageSkipped ==
  [][(ncalls' = ncalls + 1 /\ last'.fetch = "ok" /\ last'.content_type \in NonImageTypes)
     => /\ last'.outcome = "Skipped"
        /\ ~last'.ret
        /\ files' = files
        /\ download_count' = download_count]_vars

\* C9 witness: after a successful download, a call fetched a text/html
\* response and was Skipped
C9_Witness ==
  /\ last.fetch = "ok"
  /\ last.content_type = <<"t", "e", "x", "t", "/", "h", "t", "m", "l">>
  /\ last.outcome = "Skipped"
  /\ download_count = 1
  /\ Cardinality(files) = 1

\* no usable file name: the path is empty or ends in '/', or the last segment
\* is empty once the query and fragment are stripped and it is sanitized
Unusable(url) ==
  \/ urlparse(url).path = Empty
  \/ urlparse(url).path[Len(urlparse(url).path)] = "/"
  \/ sanitize_filename(SplitFirst(SplitFirst(basename(urlparse(url).path), "?"), "#")) = Empty

\* C10: when no usable file name can be derived from the address, the outcome
\* is Skipped, decided before any fetch and before any write.
C10_NoNameSkipped ==
  [][(ncalls' = ncalls + 1 /\ Unusable(last'.url))
     => /\ last'.outcome = "Skipped"
        /\ last'.fetch = "none"
        /\ files' = files]_vars

\* C10 witness: a call for http://a/: (the segment ":" is empty once
\* sanitized) was Skipped without a fetch
C10_Witness ==
  /\ last.url = ImgColon
  /\ last.outcome = "Skipped"
  /\ last.fetch = "none"
  /\ ncalls >= 1

\* a step that is a download_image call
Call == ncalls' = ncalls + 1

\* the files at the path the call derives, before the call
FilesAtPath == {f \in files : f.path = FilePath(last'.url, last'.folder)}

\* C15: a file present at the derived path is never downloaded again or
\* overwritten: a call whose derived path holds a file, whatever address the
\* file came from, returns AlreadyPresent without a fetch and leaves the files
\* as they are; no file is ever removed or replaced, and no path holds two.
C15_FirstKept ==
  [][/\ files \subseteq files'
     /\ \A f, g \in files' : f.path = g.path => f = g
     /\ (Call /\ FilesAtPath # {}) =>
          /\ last'.outcome = "AlreadyPresent"
          /\ last'.fetch = "none"
          /\ files' = files]_vars

\* C15 witness: a call for an address returned AlreadyPresent on the file
\* saved from another address with the same last path segment
C15_Witness ==
  /\ last.outcome = "AlreadyPresent"
  /\ \E f \in files :
       /\ f.path = FilePath(last.url, last.folder)
       /\ f.url # last.url
       /\ f.whole

\* C19: once a call has failed during the write and left a partial file at
\* the derived path, every later call that derives this path returns
\* AlreadyPresent (success, counted) without a fetch, and the partial file is
\* never completed or replaced.
C19_PartialKept ==
  [][/\ \A f \in files : ~f.whole => f \in files'
     /\ (Call /\ \E f \in FilesAtPath : ~f.whole) =>
          /\ last'.outcome = "AlreadyPresent"
          /\ last'.ret
          /\ last'.fetch = "none"
          /\ download_count' = download_count + 1
          /\ files' = files]_vars

\* C19 witness: a call returned AlreadyPresent and was counted although the
\* file at its path, from the same address, is a partial one
C19_Witness ==
  /\ last.outcome = "AlreadyPresent"
  /\ download_count >= 1
  /\ \E f \in files :
       /\ f.path = FilePath(last.url, last.folder)
       /\ f.url = last.url
       /\ ~f.whole

\* the content types that declare an image: "image/png", "Image"
ImageTypes == {<<"i", "m", "a", "g", "e", "/", "p", "n", "g">>, <<"I", "m", "a", "g", "e">>}

\* C20: when download_image returns True a file is at the derived path on
\* return, and a file is created only by a call whose fetch succeeded with an
\* image content type, at the path derived from the address of that call.
C20_FilesFromImages ==
  [][/\ (Call /\ last'.ret) =>
          \E f \in files' : f.path = FilePath(last'.url, last'.folder)
     /\ files' # files =>
          /\ Call
          /\ last'.fetch = "ok"
          /\ last'.content_type \in ImageTypes
          /\ \E f \in files' :
               /\ files' = files \cup {f}
               /\ f.url = last'.url
               /\ f.path = FilePath(last'.url, last'.folder)]_vars

\* C20 witness: a call whose response declared "Image" returned True and its
\* file is at the derived path
C20_Witness ==
  /\ last.outcome = "Saved"
  /\ last.ret
  /\ last.content_type = <<"I", "m", "a", "g", "e">>
  /\ \E f \in files : f.path = FilePath(last.url, last.folder) /\ f.url = last.url

(***************************************************************************)
(* sanitize_filename on its own: it is applied to a name, then to its own  *)
(* result.                                                                 *)
(***************************************************************************)
\* the characters of the short names: a letter, an illegal character, a
\* space, an underscore, a second illegal character
NameChars == {"a", ":", " ", "_", "/"}

\* n times the character c
Run(n, c) == [i \in 1..n |-> c]

\* names around the limit: of the length of the limit, one longer, longer
\* with an illegal character inside or in front, longer and of spaces only
LongNames ==
  {Run(NameLimit, "a"),
   Run(NameLimit + 1, "a"),
   Run(NameLimit - 1, "a") \o <<":", "b", "c">>,
   <<":">> \o Run(NameLimit, "a"),
   Run(NameLimit, "a") \o <<" ">>,
   Run(NameLimit + 1, " ")}

\* the arguments of sanitize_filename
FileNames == SeqsUpTo(NameChars, MaxNameLen) \cup LongNames

\* crawl_site is not running
CrawlIdle ==
  /\ base_url = SeedA
  /\ max_depth = 0
  /\ to_visit = <<>>
  /\ visited = {}
  /\ all_image_urls = {}
  /\ result = None
  /\ page_imgs = {}
  /\ fetched = <<>>
  /\ enq = {}
  /\ skipped = {}
  /\ last_page = NoPage

\* the download loop is not running
DownloadIdle ==
  /\ files = {}
  /\ download_count = 0
  /\ ncalls = 0
  /\ last = NoCall
  /\ remaining = {}
  /\ log = {}

\* line 58: sanitize_filename is about to be called on some name
InitSanitize ==
  /\ CrawlIdle
  /\ DownloadIdle
  /\ pc = "sanitize"
  /\ filename \in FileNames
  /\ sanitized = Empty
  /\ seed_imgs = <<>>

\* lines 58-68: the call returns
Sanitize ==
  /\ pc = "sanitize"
  /\ sanitized' = sanitize_filename(filename)
  /\ pc' = "sanitized"
  /\ UNCHANGED <<filename, seed_imgs>>
  /\ UNCHANGED crawlVars
  /\ UNCHANGED dlVars

\* lines 58-68: sanitize_filename is called on its own result
SanitizeAgain ==
  /\ pc = "sanitized"
  /\ filename' = sanitized
  /\ sanitized' = sanitize_filename(sanitized)
  /\ pc' = "resanitized"
  /\ UNCHANGED seed_imgs
  /\ UNCHANGED crawlVars
  /\ UNCHANGED dlVars

NextSanitize ==
  \/ Sanitize
  \/ SanitizeAgain

SpecSanitize == InitSanitize /\ [][NextSanitize]_vars

\* C11: sanitize_filename applied to its own result gives the same result,
\* the result is at most 200 characters long, and it holds none of the
\* characters < > : " / \ | ? * and no space.
C11_Sanitized ==
  /\ pc = "resanitized" => sanitized = filename
  /\ pc \in {"sanitized", "resanitized"} =>
       /\ Len(sanitized) <= 200
       /\ \A i \in 1..Len(sanitized) :
            sanitized[i] \notin {"<", ">", ":", "\"", "/", "\\", "|", "?", "*", " "}

\* C11 witness: a name of more than 200 characters with an illegal character
\* was sanitized to 200 characters, and that result was sanitized again
C11_Witness ==
  /\ pc = "resanitized"
  /\ Len(sanitized) = 200
  /\ filename = Run(199, "a") \o <<"b">>

(***************************************************************************)
(* The image loop of crawl_site on one page fixed in advance: the seed is  *)
(* crawled with max_depth = 0 and serves the <img> elements seed_imgs.     *)
(***************************************************************************)
\* the values of an <img> attribute: absent, "", "/i", "/j", "data:x"
AttrValues == {None, Empty, <<"/", "i">>, <<"/", "j">>, DataScheme \o <<"x">>}

\* the <img> elements: every combination of the three attributes
AllImgElems == [data_src : AttrValues, data_lazyload : AttrValues, src : AttrValues]

\* lines 124-127, the page fixed
InitImg ==
  /\ base_url \in BaseUrls
  /\ max_depth = 0
  /\ to_visit = <<(<<base_url, 0>>)>>
  /\ visited = {}
  /\ all_image_urls = {}
  /\ pc = "crawl"
  /\ result = None
  /\ page_imgs = {}
  /\ fetched = <<>>
  /\ enq = {}
  /\ skipped = {}
  /\ last_page = NoPage
  /\ DownloadIdle
  /\ filename = Empty
  /\ sanitized = Empty
  /\ seed_imgs \in SeqsUpTo(AllImgElems, MaxSeedImgs)

\* lines 132-166 for the seed at max_depth = 0: the fetch succeeds, the image
\* loop runs over seed_imgs, and no link is followed (line 157)
FetchSeedPage ==
  /\ pc = "crawl"
  /\ to_visit # <<>>
  /\ ~Gate(Head(to_visit)[1], Head(to_visit)[2])
  /\ ~FollowsLinks(Head(to_visit)[2])
  /\ ~ImgsRaise(Head(to_visit)[1], seed_imgs)
  /\ visited' = visited \cup {Head(to_visit)[1]}
  /\ to_visit' = Tail(to_visit)
  /\ fetched' = Append(fetched, [url |-> Head(to_visit)[1], depth |-> Head(to_visit)[2],
                                 status |-> "ok"])
  /\ last_page' = [url |-> Head(to_visit)[1], depth |-> Head(to_visit)[2],
                   link_hosts |-> {}]
  /\ all_image_urls' = all_image_urls \cup CollectImgs(Head(to_visit)[1], seed_imgs)
  /\ UNCHANGED <<base_url, max_depth, pc, result, page_imgs, enq, skipped>>
  /\ UNCHANGED dlVars
  /\ UNCHANGED auxVars

NextImg ==
  \/ FetchSeedPage
  \/ FetchFails
  \/ Return

SpecImg == InitImg /\ [][NextImg]_vars

\* an attribute value that is present and not empty
NonEmpty(v) == v # None /\ v # Empty

\* the first non-empty attribute in the order data-src, data-lazyload, src
\* (the value of src when none is)
Selected(img) ==
  IF NonEmpty(img.data_src) THEN img.data_src
  ELSE IF NonEmpty(img.data_lazyload) THEN img.data_lazyload
  ELSE img.src

\* C12: for every <img> of a fetched page the address collected is resolved
\* from the first non-empty attribute in the order data-src, data-lazyload,
\* src, and nothing is collected for the element when the selected value is
\* empty or starts with data:.
C12_AttributeOrder ==
  (fetched # <<>> /\ fetched[1].status = "ok") =>
    all_image_urls =
      {urljoin(base_url, Selected(seed_imgs[i])) :
         i \in {j \in 1..Len(seed_imgs) :
                  /\ NonEmpty(Selected(seed_imgs[j]))
                  /\ ~StartsWith(Selected(seed_imgs[j]), <<"d", "a", "t", "a", ":">>)}}

\* C12 witness: the page of http://a/ held <img data-src="/i" src="/j"> and
\* crawl_site returned the image set {http://a/i}
C12_Witness ==
  /\ pc = "done"
  /\ base_url = SeedA
  /\ seed_imgs = <<[data_src |-> <<"/", "i">>, data_lazyload |-> None, src |-> <<"/", "j">>]>>
  /\ result[2] = {SeedA \o <<"i">>}

(***************************************************************************)
(* Termination of crawl_site, checked under SpecFair, and the crawl of the *)
(* specification (an address enters the visited set when it is enqueued,   *)
(* the seed at the start), to which the state of crawl_site is mapped.     *)
(***************************************************************************)
\* C17, as stated: crawl_site terminates: the frontier becomes empty and the
\* function returns.
C17_Returns == <>(pc = "done")

\* the entries of the frontier q that will pass the gate: those whose address
\* is not in seen, the first one for each address
RECURSIVE Pending(_, _)
Pending(q, seen) ==
  IF q = <<>> THEN <<>>
  ELSE IF Head(q)[1] \in seen THEN Pending(Tail(q), seen)
  ELSE <<Head(q)>> \o Pending(Tail(q), seen \cup {Head(q)[1]})

\* the frontier of the specified crawl
SpecFrontier == Pending(to_visit, visited)

\* the visited set of the specified crawl: fetched or enqueued
SpecVisited == visited \cup {to_visit[i][1] : i \in 1..Len(to_visit)}

\* the entries the specified crawl appends for the links of a page, each
\* address entering the visited set as it is appended
RECURSIVE SpecEntries(_, _, _, _)
SpecEntries(url, depth, links, seen) ==
  IF links = <<>> THEN <<>>
  ELSE LET link == urljoin(url, Head(links))
       IN  IF /\ urlparse(link).netloc = urlparse(base_url).netloc
              /\ ~HasChar(link, "#")
              /\ link \notin seen
           THEN <<(<<link, depth + 1>>)>> \o SpecEntries(url, depth, Tail(links), seen \cup {link})
           ELSE SpecEntries(url, depth, Tail(links), seen)

\* the image addresses the specified crawl collects on a page
SpecImages(url, imgs) ==
  {urljoin(url, Selected(imgs[i])) :
     i \in {j \in 1..Len(imgs) :
              NonEmpty(Selected(imgs[j])) /\ ~StartsWith(Selected(imgs[j]), DataScheme)}}

\* the specified crawl processes the page at the head of its frontier, which
\* holds links and imgs, and the code's step is its step on the same page
SpecProcess(links, imgs) ==
  LET url == Head(SpecFrontier)[1]
      depth == Head(SpecFrontier)[2]
      new == IF depth < max_depth /\ ~LinksRaise(url, links)
             THEN SpecEntries(url, depth, links, SpecVisited) ELSE <<>>
  IN  /\ ~LinksRaise(url, links) \/ depth >= max_depth
      /\ to_visit' = Push(Tail(to_visit), Appended(url, depth, links, visited'))
      /\ SpecFrontier' = Tail(SpecFrontier) \o new
      /\ SpecVisited' = SpecVisited \cup {new[i][1] : i \in 1..Len(new)}
      /\ all_image_urls' = all_image_urls \cup SpecImages(url, imgs)

\* a step of crawl_site is a step of the specified crawl, or none
SpecCrawlStep ==
  \/ /\ fetched' = fetched
     /\ pc' = pc
     /\ SpecFrontier' = SpecFrontier
     /\ SpecVisited' = SpecVisited
     /\ all_image_urls' = all_image_urls
  \/ /\ Len(fetched') = Len(fetched) + 1
     /\ pc' = "crawl"
     /\ SpecFrontier # <<>>
     /\ fetched'[Len(fetched')].url = Head(SpecFrontier)[1]
     /\ fetched'[Len(fetched')].depth = Head(SpecFrontier)[2]
     /\ \/ /\ fetched'[Len(fetched')].status = "failed"
           /\ SpecFrontier' = Tail(SpecFrontier)
           /\ SpecVisited' = SpecVisited
           /\ all_image_urls' = all_image_urls
        \/ /\ fetched'[Len(fetched')].status = "ok"
           /\ \E links \in PageLinks, imgs \in PageImgs : SpecProcess(links, imgs)
  \/ /\ fetched' = fetched
     /\ pc' = "done"
     /\ SpecFrontier = <<>>
     /\ result' = <<SpecVisited, all_image_urls>>

\* C18, as stated: for max_depth >= 0 the code's crawl and the specified
\* crawl perform the same fetches at the same depths and return the same
\* visited set and image set: every step of crawl_site is a step of the
\* specified crawl on the mapped state, or leaves the mapped state as it is.
C18_SameCrawl == [][max_depth >= 0 => SpecCrawlStep]_vars

====
